---- MODULE Spec2Model ----
(***************************************************************************)
(* A model of PathTimeNeighborhood                                         *)
(* (modules/planning/lattice/behavior_decider/path_time_neighborhood.cc):  *)
(* the constructor's build pass SetupObstacles, which samples every        *)
(* obstacle of the frame over time and fills path_time_obstacle_map_, and  *)
(* the two accessors GetPathTimeObstacles and GetPathTimeObstacle.         *)
(*                                                                         *)
(* Units.  Longitudinal coordinates s are whole metres, lateral            *)
(* coordinates l are half metres, times are multiples of                   *)
(* trajectory_time_resolution.  All comparisons of the code are on exact   *)
(* values, so the integers behave as the doubles do.                       *)
(***************************************************************************)
EXTENDS Integers, Sequences, FiniteSets, TLC

VARIABLES
    pc,                      \* position in the constructor / after it
    init_s_,                 \* the ego state [s, s', s''] (init_s_[0] is init_s_[1] here)
    obstacles,               \* frame->obstacles(), as far as the for loop has iterated
    relative_time,           \* the local of the for body, line 57
    path_time_obstacle_map_, \* obstacle id -> PathTimeObstacle
    sampled,                 \* history: per obstacle of the for loop, the sample times
                             \* the while body has processed (the first MaxLog of them)
    spin,                    \* history: parity of the number of while-body executions
    query                    \* the last accessor call and what it returned

vars == <<pc, init_s_, obstacles, relative_time, path_time_obstacle_map_,
          sampled, spin, query>>

----------------------------------------------------------------------------
(* Configuration (lattice_params.h) and the bounds of the model.           *)

\* The number of sample times 0, dt, 2dt, ... below planned_trajectory_time.
planned_trajectory_time == 3

trajectory_time_resolution == 1

planned_trajectory_horizon == 50

lateral_enter_lane_thred == 5

\* How many processed sample times the history variable sampled keeps.
MaxLog == 4

\* The identifiers of the frame's obstacles, in the frame's order.
ObstacleIds == <<"A", "B">>

\* An identifier no obstacle of the frame has.
UnknownId == "Z"

QueryIds == {ObstacleIds[i] : i \in 1..Len(ObstacleIds)} \cup {UnknownId}

\* The ego states [s, s', s''] a build is given.
InitStates == {<<0, 0, 0>>, <<2, 1, 0>>}

\* The times at which GetPointAtTime can be asked while relative_time is
\* below planned_trajectory_time.
SampleTimes ==
    {t \in 0..(planned_trajectory_time - 1) : t % trajectory_time_resolution = 0}

\* What ReferenceLine::GetSLBoundary can return for an obstacle's box.
SL(ss, es, sl, el) == [start_s |-> ss, end_s |-> es, start_l |-> sl, end_l |-> el]

SLNear   == SL(10, 12, 0, 2)     \* in the lane, ahead
SLMoved  == SL(11, 13, 0, 2)     \* in the lane, further ahead
SLLower  == SL(4, 6, 0, 2)       \* in the lane, below SLNear
SLClear  == SL(11, 13, 8, 10)    \* laterally clear of the lane
SLBehind == SL(-5, -1, 0, 2)     \* behind the origin of the reference line
SLFar    == SL(51, 53, 0, 2)     \* at the end of the look-ahead

SLBoundaries == {SLNear, SLMoved, SLLower, SLClear, SLBehind, SLFar}

\* An obstacle of the frame: its id, the size of its predicted trajectory and,
\* per sample time, the SL boundary of its box at GetPointAtTime(time).
Obstacle(id, n, sl) == [id |-> id, trajectory_point_size |-> n, sl |-> sl]

ObstaclesWithId(id) ==
    {Obstacle(id, 0, [t \in SampleTimes |-> SLBehind])}
    \cup {Obstacle(id, 1, f) : f \in [SampleTimes -> SLBoundaries]}

----------------------------------------------------------------------------
(* The data model: PathTimePoint and PathTimeObstacle (protobuf messages,  *)
(* whose unset fields read as 0 and "").                                   *)

DefaultPoint == [s |-> 0, t |-> 0, obstacle_id |-> ""]

DefaultRegion ==
    [obstacle_id |-> "",
     bottom_left |-> DefaultPoint, upper_left |-> DefaultPoint,
     bottom_right |-> DefaultPoint, upper_right |-> DefaultPoint,
     path_lower |-> 0, path_upper |-> 0, time_lower |-> 0, time_upper |-> 0]

Abs(x) == IF x < 0 THEN -x ELSE x
Max(a, b) == IF a < b THEN b ELSE a
Min(a, b) == IF b < a THEN b ELSE a

\* m with key k bound to v (std::map's operator[] followed by an assignment).
MapPut(m, k, v) ==
    [x \in (DOMAIN m) \cup {k} |-> IF x = k THEN v ELSE m[x]]

EmptyMap == [x \in {} |-> DefaultRegion]

\* The point built with its coordinates handed over in the other order.
SetPathTimePointSwapped(obstacle_id, s, t) ==
    [s |-> t, t |-> s, obstacle_id |-> obstacle_id]

\* PathTimeNeighborhood::SetPathTimePoint, lines 136-143.
SetPathTimePoint(obstacle_id, s, t) ==
    [s |-> s, t |-> t, obstacle_id |-> obstacle_id]

\* The filter with the look-ahead measured from the origin instead of the ego.
NotInRegionFromOrigin(sl_boundary, init_s) ==
    \/ sl_boundary.end_s < 0
    \/ sl_boundary.start_s > planned_trajectory_horizon
    \/ /\ Abs(sl_boundary.start_l) > lateral_enter_lane_thred
       /\ Abs(sl_boundary.end_l) > lateral_enter_lane_thred

\* The filter with its comparisons taken non-strict.
NotInRegionNonStrict(sl_boundary, init_s) ==
    \/ sl_boundary.end_s <= 0
    \/ sl_boundary.start_s >= init_s[1] + planned_trajectory_horizon
    \/ /\ Abs(sl_boundary.start_l) >= lateral_enter_lane_thred
       /\ Abs(sl_boundary.end_l) >= lateral_enter_lane_thred

\* The filter with the lower bound measured from the ego, as in the
\* disabled classification of lines 69-73.
NotInRegionBehindEgo(sl_boundary, init_s) ==
    \/ sl_boundary.end_s < init_s[1]
    \/ sl_boundary.start_s > init_s[1] + planned_trajectory_horizon
    \/ /\ Abs(sl_boundary.start_l) > lateral_enter_lane_thred
       /\ Abs(sl_boundary.end_l) > lateral_enter_lane_thred

\* The relevance filter, lines 77-80: the sample is not in the region to be
\* considered.
NotInRegion(sl_boundary, init_s) ==
    \/ sl_boundary.end_s < 0
    \/ sl_boundary.start_s > init_s[1] + planned_trajectory_horizon
    \/ /\ Abs(sl_boundary.start_l) > lateral_enter_lane_thred
       /\ Abs(sl_boundary.end_l) > lateral_enter_lane_thred

\* Lines 93-102: the entry of an obstacle that has none yet, with its id and
\* its left corners set.
NewEntry(id, sl_boundary, t) ==
    [DefaultRegion EXCEPT
        !.obstacle_id = id,
        !.bottom_left = SetPathTimePoint(id, sl_boundary.start_s, t),
        !.upper_left = SetPathTimePoint(id, sl_boundary.end_s, t)]

\* The right-corner update with its first target mistaken for upper_left.
SetRightCornersOnLeft(region, id, sl_boundary, t) ==
    [region EXCEPT
        !.upper_left = SetPathTimePoint(id, sl_boundary.start_s, t),
        !.upper_right = SetPathTimePoint(id, sl_boundary.end_s, t)]

\* Lines 104-108: the right corners are written on every relevant sample.
SetRightCorners(region, id, sl_boundary, t) ==
    [region EXCEPT
        !.bottom_right = SetPathTimePoint(id, sl_boundary.start_s, t),
        !.upper_right = SetPathTimePoint(id, sl_boundary.end_s, t)]

\* Lines 93-108: what a relevant sample does to the map.
RelevantSample(m, id, sl_boundary, t) ==
    LET entry == IF id \in DOMAIN m THEN m[id] ELSE NewEntry(id, sl_boundary, t)
    IN  MapPut(m, id, SetRightCorners(entry, id, sl_boundary, t))

\* Lines 114-132: the scalar bounds of one entry.
FinalizeRegion(r) ==
    [r EXCEPT
        !.path_lower = Min(r.bottom_left.s, r.upper_left.s),
        !.path_upper = Max(r.bottom_right.s, r.upper_right.s),
        !.time_upper = Max(r.bottom_right.t, r.upper_right.t),
        !.time_lower = Min(r.bottom_left.t, r.upper_left.t)]

\* The order in which the map is iterated (implementation-defined; here the
\* frame's order of the ids).
RECURSIVE KeysFrom(_, _)
KeysFrom(m, i) ==
    IF i > Len(ObstacleIds) THEN <<>>
    ELSE (IF ObstacleIds[i] \in DOMAIN m THEN <<ObstacleIds[i]>> ELSE <<>>)
         \o KeysFrom(m, i + 1)

\* PathTimeNeighborhood::GetPathTimeObstacles, lines 159-165.
GetPathTimeObstacles(m) ==
    LET keys == KeysFrom(m, 1)
    IN  [i \in 1..Len(keys) |-> m[keys[i]]]

\* The lookup with the test of line 177 inverted.
GetPathTimeObstacleInverted(m, obstacle_id, out) ==
    IF obstacle_id \in DOMAIN m
    THEN [ret |-> FALSE, out |-> out, map |-> m]
    ELSE [ret |-> TRUE, out |-> DefaultRegion,
          map |-> MapPut(m, obstacle_id, DefaultRegion)]

\* The lookup without the test of line 177: operator[] on a missing key
\* inserts a default entry.
GetPathTimeObstacleUnguarded(m, obstacle_id, out) ==
    IF obstacle_id \notin DOMAIN m
    THEN [ret |-> TRUE, out |-> DefaultRegion,
          map |-> MapPut(m, obstacle_id, DefaultRegion)]
    ELSE [ret |-> TRUE, out |-> m[obstacle_id], map |-> m]

\* PathTimeNeighborhood::GetPathTimeObstacle, lines 167-182: the returned
\* flag, the caller's object afterwards, and the map afterwards (line 180
\* uses the non-const operator[]).
GetPathTimeObstacle(m, obstacle_id, out) ==
    IF obstacle_id \notin DOMAIN m
    THEN [ret |-> FALSE, out |-> out, map |-> m]
    ELSE [ret |-> TRUE, out |-> m[obstacle_id], map |-> m]

----------------------------------------------------------------------------
(* The state machine.                                                      *)

NoQuery == [op |-> "none"]

Init ==
    /\ pc = "for"
    /\ init_s_ \in InitStates
    /\ obstacles = <<>>
    /\ relative_time = 0
    /\ path_time_obstacle_map_ = EmptyMap
    /\ sampled = <<>>
    /\ spin = FALSE
    /\ query = NoQuery

\* The obstacle the for loop is at.
Current == obstacles[Len(obstacles)]

\* The history with sample time t recorded for the current obstacle.
Log(logs, t) ==
    IF Len(logs[Len(logs)]) < MaxLog
    THEN [logs EXCEPT ![Len(logs)] = Append(@, t)]
    ELSE logs

\* The for body entered without the test of lines 53-55: an obstacle with an
\* empty trajectory is sampled like any other.
TakeObstacleNoSkip(ob) ==
    /\ obstacles' = Append(obstacles, ob)
    /\ pc' = "while"
    /\ relative_time' = 0
    /\ sampled' = Append(sampled, <<>>)
    /\ spin' = FALSE
    /\ UNCHANGED <<init_s_, path_time_obstacle_map_, query>>

\* Lines 52-57: the for body is entered with obstacle ob; one with an empty
\* trajectory is skipped, any other starts its sampling at 0.
TakeObstacle(ob) ==
    /\ obstacles' = Append(obstacles, ob)
    /\ IF ob.trajectory_point_size = 0
       THEN /\ pc' = "for"
            /\ UNCHANGED relative_time
       ELSE /\ pc' = "while"
            /\ relative_time' = 0
    /\ sampled' = Append(sampled, <<>>)
    /\ spin' = FALSE
    /\ UNCHANGED <<init_s_, path_time_obstacle_map_, query>>

\* Line 52: the for loop takes the next obstacle of the frame.
NextObstacle ==
    /\ pc = "for"
    /\ Len(obstacles) < Len(ObstacleIds)
    /\ \E ob \in ObstaclesWithId(ObstacleIds[Len(obstacles) + 1]) :
          TakeObstacle(ob)

\* Lines 58-109: one execution of the while body.
Sample ==
    /\ pc = "while"
    /\ relative_time < planned_trajectory_time
    /\ LET id == Current.id
           sl_boundary == Current.sl[relative_time]
       IN  IF NotInRegion(sl_boundary, init_s_)
           THEN IF id \in DOMAIN path_time_obstacle_map_
                THEN \* break, then line 110
                     /\ pc' = "for"
                     /\ relative_time' = relative_time + trajectory_time_resolution
                     /\ UNCHANGED path_time_obstacle_map_
                ELSE \* lines 85-86
                     /\ pc' = "while"
                     /\ relative_time' = relative_time + trajectory_time_resolution
                     /\ UNCHANGED path_time_obstacle_map_
           ELSE \* lines 90-108, and back to the loop condition at line 58
                /\ pc' = "while"
                /\ path_time_obstacle_map_' =
                      RelevantSample(path_time_obstacle_map_, id, sl_boundary,
                                     relative_time)
                /\ UNCHANGED relative_time
    /\ sampled' = Log(sampled, relative_time)
    /\ spin' = ~spin
    /\ UNCHANGED <<init_s_, obstacles, query>>

\* Lines 58 and 110: the loop condition fails, the for body ends.
EndSampling ==
    /\ pc = "while"
    /\ ~(relative_time < planned_trajectory_time)
    /\ pc' = "for"
    /\ relative_time' = relative_time + trajectory_time_resolution
    /\ UNCHANGED <<init_s_, obstacles, path_time_obstacle_map_, sampled, spin, query>>

\* Lines 113-134: after the last obstacle, the scalar bounds of every entry.
Finalize ==
    /\ pc = "for"
    /\ Len(obstacles) = Len(ObstacleIds)
    /\ path_time_obstacle_map_' =
          [id \in DOMAIN path_time_obstacle_map_ |->
              FinalizeRegion(path_time_obstacle_map_[id])]
    /\ pc' = "done"
    /\ UNCHANGED <<init_s_, obstacles, relative_time, sampled, spin, query>>

\* A caller's GetPathTimeObstacles() on the constructed object.
CallGetPathTimeObstacles ==
    /\ pc = "done"
    /\ query' = [op |-> "all", list |-> GetPathTimeObstacles(path_time_obstacle_map_)]
    /\ UNCHANGED <<pc, init_s_, obstacles, relative_time, path_time_obstacle_map_,
                   sampled, spin>>

\* What the caller's object can hold before the call.
CallerRegions == {DefaultRegion, [DefaultRegion EXCEPT !.obstacle_id = "old"]}

\* A caller's GetPathTimeObstacle(id, &out) on the constructed object.
CallGetPathTimeObstacle ==
    /\ pc = "done"
    /\ \E id \in QueryIds, out \in CallerRegions :
          LET r == GetPathTimeObstacle(path_time_obstacle_map_, id, out)
          IN  /\ query' = [op |-> "one", id |-> id, before |-> out,
                           ret |-> r.ret, out |-> r.out]
              /\ path_time_obstacle_map_' = r.map
    /\ UNCHANGED <<pc, init_s_, obstacles, relative_time, sampled, spin>>

Next ==
    \/ NextObstacle
    \/ Sample
    \/ EndSampling
    \/ Finalize
    \/ CallGetPathTimeObstacles
    \/ CallGetPathTimeObstacle

Spec == Init /\ [][Next]_vars

\* The constructor and its callers are ordinary sequential code: a step that
\* can be taken is taken.
FairSpec == Spec /\ WF_vars(Next)

----------------------------------------------------------------------------
(* The same program on inputs at the edges of the relevance filter.        *)

SLEndsAtOrigin == SL(-3, 0, 0, 2)     \* end_s on the origin
SLBehindEgo    == SL(-3, 1, 0, 2)     \* ends ahead of the origin, behind an ego at 2
SLAtHorizon    == SL(50, 52, 0, 2)    \* start_s on the look-ahead of an ego at 0
SLAtHorizon2   == SL(52, 54, 0, 2)    \* start_s on the look-ahead of an ego at 2
SLEndLOut      == SL(11, 13, 2, 8)    \* only end_l beyond the threshold
SLStartLOut    == SL(11, 13, -8, 2)   \* only start_l beyond the threshold
SLOnThreshold  == SL(11, 13, 5, 8)    \* start_l on the threshold, end_l beyond it
SLStraddle     == SL(11, 13, -8, 8)   \* both edges beyond it, on opposite sides

SLEdgeCases == {SLEndsAtOrigin, SLBehindEgo, SLAtHorizon, SLAtHorizon2,
                SLEndLOut, SLStartLOut, SLOnThreshold, SLStraddle}

\* Ego states that differ in s, and ego states that differ in s' and s'' only.
EdgeInitStates == {<<0, 0, 0>>, <<0, 3, 1>>, <<2, 1, 0>>}

EdgeObstaclesWithId(id) ==
    {Obstacle(id, 0, [t \in SampleTimes |-> SLStraddle])}
    \cup {Obstacle(id, 1, f) : f \in [SampleTimes -> SLEdgeCases]}

EdgeInit ==
    /\ pc = "for"
    /\ init_s_ \in EdgeInitStates
    /\ obstacles = <<>>
    /\ relative_time = 0
    /\ path_time_obstacle_map_ = EmptyMap
    /\ sampled = <<>>
    /\ spin = FALSE
    /\ query = NoQuery

\* Line 52, with the next obstacle drawn from the edge cases.
NextEdgeObstacle ==
    /\ pc = "for"
    /\ Len(obstacles) < Len(ObstacleIds)
    /\ \E ob \in EdgeObstaclesWithId(ObstacleIds[Len(obstacles) + 1]) :
          TakeObstacle(ob)

EdgeNext ==
    \/ NextEdgeObstacle
    \/ Sample
    \/ EndSampling
    \/ Finalize
    \/ CallGetPathTimeObstacles
    \/ CallGetPathTimeObstacle

EdgeSpec == EdgeInit /\ [][EdgeNext]_vars

----------------------------------------------------------------------------
(* Vocabulary of the properties.                                           *)

Ids == {ObstacleIds[i] : i \in 1..Len(ObstacleIds)}

\* The obstacles the for loop has reached.
Reached == 1..Len(obstacles)

\* A sample is irrelevant when it is behind the origin of the reference line,
\* beyond the look-ahead of the ego, or laterally clear on both edges.
IrrelevantSL(b) ==
    \/ b.end_s < 0
    \/ b.start_s > init_s_[1] + planned_trajectory_horizon
    \/ (Abs(b.start_l) > lateral_enter_lane_thred
        /\ Abs(b.end_l) > lateral_enter_lane_thred)

RelevantAt(ob, t) == ~IrrelevantSL(ob.sl[t])

NeverRelevant(ob) == \A t \in SampleTimes : ~RelevantAt(ob, t)

\* The build pass has ended and the object is constructed.
Built == pc = "done"

----------------------------------------------------------------------------
(* C1.  The build pass terminates for every obstacle set and every         *)
(* sequence of per-sample SL intervals, also when samples are relevant:    *)
(* every run of the constructor reaches the end of SetupObstacles.         *)
C1_BuildTerminates == <>Built

(* C2.  Each obstacle is sampled at the times 0, dt, 2dt, ... below        *)
(* planned_trajectory_time: the i-th processed sample of an obstacle is at *)
(* (i-1)*dt whether the samples before it were relevant or not, so no      *)
(* sample time is processed twice and none is at or past                   *)
(* planned_trajectory_time.                                                *)
C2_SampleTimesAdvance ==
    \A i \in Reached :
        \A j \in 1..Len(sampled[i]) :
            /\ sampled[i][j] = (j - 1) * trajectory_time_resolution
            /\ sampled[i][j] < planned_trajectory_time

\* The region the map holds for an obstacle id.
Region(id) == path_time_obstacle_map_[id]

\* The obstacle has a trajectory, so it is sampled.
IsSampled(ob) == ob.trajectory_point_size > 0

\* The first sample time at which the obstacle is relevant.
FirstRelevant(ob) ==
    CHOOSE t \in SampleTimes :
        /\ RelevantAt(ob, t)
        /\ \A u \in SampleTimes : u < t => ~RelevantAt(ob, u)

\* The obstacle is relevant at every sample time from t0 to t.
RelevantFromTo(ob, t0, t) ==
    \A u \in SampleTimes : (t0 <= u /\ u <= t) => RelevantAt(ob, u)

\* The sampling of the obstacle ends after the sample at t: the next sample
\* is irrelevant, or there is none below planned_trajectory_time.
EndsAfter(ob, t) ==
    (t + trajectory_time_resolution) \in SampleTimes
        => ~RelevantAt(ob, t + trajectory_time_resolution)

\* The last relevant sample time the sampling of the obstacle reaches.
LastRelevant(ob) ==
    CHOOSE t \in SampleTimes :
        /\ FirstRelevant(ob) <= t
        /\ RelevantFromTo(ob, FirstRelevant(ob), t)
        /\ EndsAfter(ob, t)

(* C3.  Early exit: an obstacle relevant at every sample time up to tk and  *)
(* irrelevant at tk + dt ends the build with a region whose time_upper is  *)
(* tk and whose right corners are those of the sample at tk, and no sample *)
(* later than tk + dt is taken for it.  The obstacle of the example (in the *)
(* lane at 10..12 and 11..13, then laterally clear, ego at 0) ends with    *)
(* path_lower 10, path_upper 13, time_lower 0 and time_upper one step.     *)
C3_EarlyExitResult ==
    /\ \A i \in 1..Len(ObstacleIds), tk \in SampleTimes :
          (/\ i \in Reached
           /\ IsSampled(obstacles[i])
           /\ RelevantFromTo(obstacles[i], 0, tk)
           /\ (tk + trajectory_time_resolution) \in SampleTimes
           /\ ~RelevantAt(obstacles[i], tk + trajectory_time_resolution))
          ~> (/\ Built
              /\ ObstacleIds[i] \in DOMAIN path_time_obstacle_map_
              /\ Region(ObstacleIds[i]).time_upper = tk
              /\ Region(ObstacleIds[i]).bottom_right.t = tk
              /\ \A j \in 1..Len(sampled[i]) :
                    sampled[i][j] <= tk + trajectory_time_resolution)
    /\ \A i \in 1..Len(ObstacleIds) :
          (/\ i \in Reached
           /\ IsSampled(obstacles[i])
           /\ init_s_[1] = 0
           /\ obstacles[i].sl[0] = SLNear
           /\ obstacles[i].sl[trajectory_time_resolution] = SLMoved
           /\ obstacles[i].sl[2 * trajectory_time_resolution] = SLClear)
          ~> (/\ Built
              /\ ObstacleIds[i] \in DOMAIN path_time_obstacle_map_
              /\ Region(ObstacleIds[i]).path_lower = 10
              /\ Region(ObstacleIds[i]).path_upper = 13
              /\ Region(ObstacleIds[i]).time_lower = 0
              /\ Region(ObstacleIds[i]).time_upper = trajectory_time_resolution)

(* C4.  Every region the build creates is in the map after the build with  *)
(* path_lower <= path_upper and time_lower <= time_upper.                  *)
C4_BoundsOrdered ==
    \A id \in Ids :
        (id \in DOMAIN path_time_obstacle_map_)
        ~> (/\ Built
            /\ id \in DOMAIN path_time_obstacle_map_
            /\ Region(id).path_lower <= Region(id).path_upper
            /\ Region(id).time_lower <= Region(id).time_upper)

Min4(a, b, c, d) == Min(Min(a, b), Min(c, d))
Max4(a, b, c, d) == Max(Max(a, b), Max(c, d))

\* The scalar bounds of r are the extremes over its four corners.
ExtremesOfCorners(r) ==
    /\ r.path_lower = Min4(r.bottom_left.s, r.upper_left.s,
                           r.bottom_right.s, r.upper_right.s)
    /\ r.path_upper = Max4(r.bottom_left.s, r.upper_left.s,
                           r.bottom_right.s, r.upper_right.s)
    /\ r.time_lower = Min4(r.bottom_left.t, r.upper_left.t,
                           r.bottom_right.t, r.upper_right.t)
    /\ r.time_upper = Max4(r.bottom_left.t, r.upper_left.t,
                           r.bottom_right.t, r.upper_right.t)

(* C5.  Every region the build creates is in the map after the build with  *)
(* its scalar bounds the minimum and maximum s, and the minimum and        *)
(* maximum t, over its four corner points.                                 *)
C5_BoundsAreExtremes ==
    \A id \in Ids :
        (id \in DOMAIN path_time_obstacle_map_)
        ~> (/\ Built
            /\ id \in DOMAIN path_time_obstacle_map_
            /\ ExtremesOfCorners(Region(id)))

\* How many regions of GetPathTimeObstacles() carry the id.
CountInList(id) ==
    LET all == GetPathTimeObstacles(path_time_obstacle_map_)
    IN  Cardinality({j \in 1..Len(all) : all[j].obstacle_id = id})

(* C6.  An obstacle that is irrelevant at every sample time has no entry:  *)
(* its id is no key of the map, no region of GetPathTimeObstacles() carries *)
(* it and GetPathTimeObstacle(id) returns false; this holds in every state, *)
(* so also after the build.  An obstacle of which the sampling has reached *)
(* a relevant sample has exactly one entry.                                *)
C6_AbsentIffNeverRelevant ==
    \A i \in Reached :
        LET ob == obstacles[i]
        IN  /\ NeverRelevant(ob) =>
                  /\ ob.id \notin DOMAIN path_time_obstacle_map_
                  /\ CountInList(ob.id) = 0
                  /\ \A out \in CallerRegions :
                        ~GetPathTimeObstacle(path_time_obstacle_map_, ob.id, out).ret
                  /\ (query.op = "one" /\ query.id = ob.id) => ~query.ret
            /\ (\E j \in 1..Len(sampled[i]) : RelevantAt(ob, sampled[i][j])) =>
                  /\ ob.id \in DOMAIN path_time_obstacle_map_
                  /\ CountInList(ob.id) = 1

\* After the build, an obstacle that was sampled at every sample time and was
\* behind, beyond the look-ahead and laterally clear in turn is looked up and
\* not found.
C6_Witness ==
    /\ Built
    /\ init_s_[1] = 0
    /\ IsSampled(obstacles[1])
    /\ obstacles[1].sl[0] = SLBehind
    /\ obstacles[1].sl[trajectory_time_resolution] = SLFar
    /\ obstacles[1].sl[2 * trajectory_time_resolution] = SLClear
    /\ Len(sampled[1]) >= 3
    /\ query.op = "one"
    /\ query.id = obstacles[1].id
    /\ query.ret = FALSE

(* C7.  The left corners are frozen: when an obstacle gets its entry, on   *)
(* its first relevant sample at time t0, bottom_left is (start_s, t0) and  *)
(* upper_left is (end_s, t0), and no later step changes either of them or  *)
(* removes the entry.                                                      *)
C7_LeftCornersFrozen ==
    [][\A id \in Ids :
          /\ (id \in DOMAIN path_time_obstacle_map_) =>
                /\ id \in DOMAIN path_time_obstacle_map_'
                /\ path_time_obstacle_map_'[id].bottom_left = Region(id).bottom_left
                /\ path_time_obstacle_map_'[id].upper_left = Region(id).upper_left
          /\ (id \notin DOMAIN path_time_obstacle_map_
              /\ id \in DOMAIN path_time_obstacle_map_') =>
                /\ pc = "while"
                /\ id = Current.id
                /\ RelevantAt(Current, relative_time)
                /\ path_time_obstacle_map_'[id].bottom_left =
                      [s |-> Current.sl[relative_time].start_s,
                       t |-> relative_time, obstacle_id |-> id]
                /\ path_time_obstacle_map_'[id].upper_left =
                      [s |-> Current.sl[relative_time].end_s,
                       t |-> relative_time, obstacle_id |-> id]
      ]_vars

\* An obstacle has its entry and two more samples of it have been processed
\* since; its left corners are those of its first relevant sample.
C7_Witness ==
    /\ pc = "while"
    /\ Current.id \in DOMAIN path_time_obstacle_map_
    /\ Len(sampled[Len(sampled)]) >= 3
    /\ RelevantAt(Current, sampled[Len(sampled)][1])
    /\ Region(Current.id).bottom_left.s = Current.sl[sampled[Len(sampled)][1]].start_s
    /\ Region(Current.id).upper_left.s = Current.sl[sampled[Len(sampled)][1]].end_s
    /\ Region(Current.id).bottom_left.s # Region(Current.id).upper_left.s

(* C8.  An obstacle with a relevant sample ends the build with a region    *)
(* whose right corners are (start_s, t_last) and (end_s, t_last) of its    *)
(* last relevant sample reached; when it is relevant at several sample     *)
(* times in a row, t_last is later than the time of the left corners.      *)
C8_RightCornersAreLast ==
    \A i \in 1..Len(ObstacleIds) :
        (/\ i \in Reached
         /\ IsSampled(obstacles[i])
         /\ ~NeverRelevant(obstacles[i]))
        ~> (/\ Built
            /\ ObstacleIds[i] \in DOMAIN path_time_obstacle_map_
            /\ LET ob == obstacles[i]
                   r == Region(ObstacleIds[i])
                   tl == LastRelevant(ob)
               IN  /\ r.bottom_right = [s |-> ob.sl[tl].start_s, t |-> tl,
                                        obstacle_id |-> ob.id]
                   /\ r.upper_right = [s |-> ob.sl[tl].end_s, t |-> tl,
                                       obstacle_id |-> ob.id]
                   /\ (tl > FirstRelevant(ob)) => r.bottom_right.t > r.bottom_left.t)

\* The element of GetPathTimeObstacles() for the id is the region r.
InListAs(id, r) ==
    LET all == GetPathTimeObstacles(path_time_obstacle_map_)
    IN  \E j \in 1..Len(all) : all[j].obstacle_id = id /\ all[j] = r

(* C9.  GetPathTimeObstacle(id) returns true and the region that           *)
(* GetPathTimeObstacles() holds for the id when the id is a key of the     *)
(* map, and returns false and leaves the caller's object as it was when    *)
(* it is not; the same is true of what the last call returned.             *)
C9_LookupAgreesWithList ==
    /\ \A id \in QueryIds, out \in CallerRegions :
          LET r == GetPathTimeObstacle(path_time_obstacle_map_, id, out)
          IN  /\ (id \in DOMAIN path_time_obstacle_map_) =>
                    (r.ret /\ InListAs(id, r.out) /\ CountInList(id) = 1)
              /\ (id \notin DOMAIN path_time_obstacle_map_) =>
                    (~r.ret /\ r.out = out /\ CountInList(id) = 0)
    /\ (query.op = "one") =>
          /\ query.ret <=> (query.id \in DOMAIN path_time_obstacle_map_)
          /\ query.ret => InListAs(query.id, query.out)
          /\ ~query.ret => query.out = query.before

\* A caller has looked up an id that is not in the map, with an object that
\* held a region before: false came back and the object is as it was.
C9_Witness ==
    /\ Built
    /\ query.op = "one"
    /\ query.id = UnknownId
    /\ query.before # DefaultRegion
    /\ query.ret = FALSE
    /\ query.out = query.before

(* C10.  After construction no call changes the map: whatever accessor is  *)
(* called, with an id that is present or absent, the map keeps its keys    *)
(* and its regions.                                                        *)
C10_QueriesReadOnly ==
    [][Built => path_time_obstacle_map_' = path_time_obstacle_map_]_vars

\* Both accessors have been called on the built object, the lookup with an
\* id of the frame that has no entry, and the map has no key for it.
C10_Witness ==
    /\ Built
    /\ query.op = "one"
    /\ query.id \in Ids
    /\ query.id \notin DOMAIN path_time_obstacle_map_
    /\ query.ret = FALSE

(* C11.  An obstacle whose predicted trajectory is empty is skipped: no    *)
(* sample of it is ever taken and it never has an entry; the step that     *)
(* skips it leaves the map and the time as they were and hands the for     *)
(* loop on to the next obstacle, and a build of nothing but such obstacles *)
(* ends with an empty map.                                                 *)
C11_EmptyTrajectorySkipped ==
    [][/\ \A i \in 1..Len(obstacles') :
             (obstacles'[i].trajectory_point_size = 0) =>
                /\ sampled'[i] = <<>>
                /\ obstacles'[i].id \notin DOMAIN path_time_obstacle_map_'
                /\ (i \notin Reached) =>
                      /\ pc' = "for"
                      /\ path_time_obstacle_map_' = path_time_obstacle_map_
                      /\ relative_time' = relative_time
       /\ (Built' /\ \A i \in 1..Len(obstacles') :
                        obstacles'[i].trajectory_point_size = 0) =>
             path_time_obstacle_map_' = EmptyMap
      ]_vars

\* The build has ended: the first obstacle had no trajectory and was skipped,
\* the second was sampled at every sample time after it.
C11_Witness ==
    /\ Built
    /\ Len(obstacles) = 2
    /\ obstacles[1].trajectory_point_size = 0
    /\ sampled[1] = <<>>
    /\ IsSampled(obstacles[2])
    /\ Len(sampled[2]) = Cardinality(SampleTimes)
    /\ path_time_obstacle_map_ = EmptyMap

\* The obstacle is irrelevant at every sample time before tj and relevant at tj.
FirstRelevantAt(ob, tj) ==
    /\ RelevantAt(ob, tj)
    /\ \A u \in SampleTimes : u < tj => ~RelevantAt(ob, u)

(* C13.  An obstacle that is irrelevant at the sample times before j*dt    *)
(* and first relevant at j*dt, j >= 1, ends the build with an entry whose  *)
(* left corners are (start_s, j*dt) and (end_s, j*dt) and whose time_lower *)
(* is j*dt, not 0.                                                         *)
C13_LateFirstRelevant ==
    \A i \in 1..Len(ObstacleIds), tj \in SampleTimes \ {0} :
        (/\ i \in Reached
         /\ IsSampled(obstacles[i])
         /\ FirstRelevantAt(obstacles[i], tj))
        ~> (/\ Built
            /\ ObstacleIds[i] \in DOMAIN path_time_obstacle_map_
            /\ LET ob == obstacles[i]
                   r == Region(ObstacleIds[i])
               IN  /\ r.bottom_left = [s |-> ob.sl[tj].start_s, t |-> tj,
                                       obstacle_id |-> ob.id]
                   /\ r.upper_left = [s |-> ob.sl[tj].end_s, t |-> tj,
                                      obstacle_id |-> ob.id]
                   /\ r.time_lower = tj)

\* The sampling of the i-th obstacle has ended.
SamplingEnded(i) == i < Len(obstacles) \/ pc \in {"for", "done"}

\* The positions in a history of sample times at which ob is relevant.
RelevantIn(ob, log) == {j \in 1..Len(log) : RelevantAt(ob, log[j])}

\* The corners of region r are those that the obstacle's own processed
\* samples give: the left ones from the first relevant sample of the
\* history, the right ones from the last.
CornersFromOwnSamples(r, ob, log) ==
    LET first == log[CHOOSE j \in RelevantIn(ob, log) :
                        \A k \in RelevantIn(ob, log) : j <= k]
        last == log[CHOOSE j \in RelevantIn(ob, log) :
                       \A k \in RelevantIn(ob, log) : k <= j]
    IN  /\ RelevantIn(ob, log) # {}
        /\ r.obstacle_id = ob.id
        /\ r.bottom_left = [s |-> ob.sl[first].start_s, t |-> first, obstacle_id |-> ob.id]
        /\ r.upper_left = [s |-> ob.sl[first].end_s, t |-> first, obstacle_id |-> ob.id]
        /\ r.bottom_right = [s |-> ob.sl[last].start_s, t |-> last, obstacle_id |-> ob.id]
        /\ r.upper_right = [s |-> ob.sl[last].end_s, t |-> last, obstacle_id |-> ob.id]

\* No time is carried over: the sampling of every obstacle starts at time 0,
\* whatever time the obstacle before it ended with, every sampled obstacle
\* has its first sample at 0, and the corners of an entry are given by that
\* obstacle's own processed samples alone.
NoCarryOver ==
    \A i \in Reached :
        LET ob == obstacles[i]
            log == sampled[i]
        IN  /\ (IsSampled(ob) /\ log = <<>> /\ ~SamplingEnded(i)) => relative_time = 0
            /\ (log # <<>>) => log[1] = 0
            /\ (IsSampled(ob) /\ SamplingEnded(i)) => log # <<>>
            /\ (ob.id \in DOMAIN path_time_obstacle_map_) =>
                  CornersFromOwnSamples(Region(ob.id), ob, log)
            /\ (ob.id \notin DOMAIN path_time_obstacle_map_) =>
                  RelevantIn(ob, log) = {}

(* C14.  Each obstacle's sampling restarts at 0 with nothing carried over  *)
(* from the obstacle before it, and what is built for an obstacle depends  *)
(* on its own samples only: whatever the other obstacles of the frame are  *)
(* and wherever it stands in the frame, the obstacle is reached and, if it *)
(* has a trajectory, sampled from time 0 on.                               *)
C14_IndependentOfOthers ==
    /\ []NoCarryOver
    /\ \A i \in 1..Len(ObstacleIds) :
          <>(/\ i \in Reached
             /\ IsSampled(obstacles[i]) => (sampled[i] # <<>> /\ sampled[i][1] = 0))

\* A sample is relevant when its end_s is at or ahead of the origin, its
\* start_s at or before the look-ahead of the ego at s0, and at least one of
\* its lateral edges at or within the threshold.
RelevantFor(b, s0) ==
    /\ b.end_s >= 0
    /\ b.start_s <= s0 + planned_trajectory_horizon
    /\ (Abs(b.start_l) <= lateral_enter_lane_thred
        \/ Abs(b.end_l) <= lateral_enter_lane_thred)

\* The sample the while body processed last for the i-th obstacle.
LastSample(i) == obstacles[i].sl[sampled[i][Len(sampled[i])]]

(* C15.  The filter is strict and a disjunction: when the sample processed *)
(* last has end_s >= 0, start_s <= ego_s0 + horizon and at least one       *)
(* lateral edge with |l| <= threshold (so also with end_s = 0, start_s on  *)
(* the look-ahead, or one edge on or within the threshold), the obstacle   *)
(* has an entry whose right corners are that sample's; an obstacle all of  *)
(* whose processed samples fail one of the three (so also one whose edges  *)
(* are beyond the threshold on opposite sides) has no entry.               *)
C15_FilterIsStrict ==
    \A i \in Reached :
        LET ob == obstacles[i]
            log == sampled[i]
        IN  /\ (log # <<>> /\ RelevantFor(LastSample(i), init_s_[1])) =>
                  /\ ob.id \in DOMAIN path_time_obstacle_map_
                  /\ Region(ob.id).bottom_right.s = LastSample(i).start_s
                  /\ Region(ob.id).upper_right.s = LastSample(i).end_s
                  /\ Region(ob.id).bottom_right.t = log[Len(log)]
            /\ (\A j \in 1..Len(log) : ~RelevantFor(ob.sl[log[j]], init_s_[1])) =>
                  ob.id \notin DOMAIN path_time_obstacle_map_

\* An obstacle whose first sample straddles the lane (beyond the threshold
\* on both sides) and whose second sample ends exactly on the origin: the
\* first was skipped, the second made the entry and was written again.
C15_Witness ==
    /\ pc = "while"
    /\ Len(obstacles) = 1
    /\ obstacles[1].sl[0] = SLStraddle
    /\ obstacles[1].sl[trajectory_time_resolution] = SLEndsAtOrigin
    /\ Len(sampled[1]) >= 3
    /\ obstacles[1].id \in DOMAIN path_time_obstacle_map_
    /\ Region(obstacles[1].id).bottom_left.t = trajectory_time_resolution
    /\ Region(obstacles[1].id).upper_right.s = 0

\* The time is a sample time: a multiple of the resolution below
\* planned_trajectory_time.
IsSampleTime(t) ==
    /\ 0 <= t
    /\ t < planned_trajectory_time
    /\ t % trajectory_time_resolution = 0

(* C16.  Every entry of the map is well formed in every state: its id and  *)
(* the ids of its four corners are its key, the two left corners have one  *)
(* time and the two right corners have one time, the left time is not      *)
(* after the right time, every corner time is a sample time, and each      *)
(* bottom corner's s is at most its upper corner's s.                      *)
C16_EntriesWellFormed ==
    \A id \in DOMAIN path_time_obstacle_map_ :
        LET r == Region(id)
        IN  /\ r.obstacle_id = id
            /\ r.bottom_left.obstacle_id = id
            /\ r.upper_left.obstacle_id = id
            /\ r.bottom_right.obstacle_id = id
            /\ r.upper_right.obstacle_id = id
            /\ r.bottom_left.t = r.upper_left.t
            /\ r.bottom_right.t = r.upper_right.t
            /\ r.bottom_left.t <= r.bottom_right.t
            /\ IsSampleTime(r.bottom_left.t)
            /\ IsSampleTime(r.bottom_right.t)
            /\ r.bottom_left.s <= r.upper_left.s
            /\ r.bottom_right.s <= r.upper_right.s

\* The second obstacle of the frame has an entry made at the last sample
\* time, and the sample has been written more than once.
C16_Witness ==
    /\ pc = "while"
    /\ Len(obstacles) = 2
    /\ obstacles[2].id \in DOMAIN path_time_obstacle_map_
    /\ Region(obstacles[2].id).bottom_left.t = 2 * trajectory_time_resolution
    /\ Region(obstacles[2].id).bottom_left.s < Region(obstacles[2].id).upper_left.s
    /\ Len(sampled[2]) >= 4

(* C17.  Of the ego state only s matters: the filter gives the same answer *)
(* for the sample processed last when s' and s'' are replaced by others, an *)
(* obstacle has an entry exactly when a processed sample of it is relevant *)
(* for the ego's s alone, and the lower bound is measured from the origin: *)
(* a sample that ends behind the ego but not behind the origin is relevant. *)
C17_OnlyEgoSMatters ==
    \A i \in Reached :
        LET ob == obstacles[i]
            log == sampled[i]
        IN  /\ log # <<>> =>
                  \A v \in {0, 1, 3}, a \in {0, 1} :
                      NotInRegion(LastSample(i), <<init_s_[1], v, a>>)
                         <=> NotInRegion(LastSample(i), init_s_)
            /\ (ob.id \in DOMAIN path_time_obstacle_map_)
                  <=> (\E j \in 1..Len(log) : RelevantFor(ob.sl[log[j]], init_s_[1]))
            /\ \A j \in 1..Len(log) :
                  (/\ 0 <= ob.sl[log[j]].end_s
                   /\ ob.sl[log[j]].end_s < init_s_[1]
                   /\ Abs(ob.sl[log[j]].start_l) <= lateral_enter_lane_thred)
                  => ob.id \in DOMAIN path_time_obstacle_map_

\* The ego is at s = 2 and moving; a sample that ends at s = 1, behind the
\* ego and ahead of the origin, has made the obstacle's entry.
C17_Witness ==
    /\ pc = "while"
    /\ init_s_ = <<2, 1, 0>>
    /\ Len(obstacles) = 1
    /\ obstacles[1].sl[0] = SLBehindEgo
    /\ sampled[1] # <<>>
    /\ obstacles[1].id \in DOMAIN path_time_obstacle_map_
    /\ Region(obstacles[1].id).upper_left.s = 1

====
